---- MODULE Spec2Model ----
(***************************************************************************)
(* scripts/recover_seqn_demo.py: the cleaning pipeline that turns          *)
(* data/raw/merged.csv into data/clean/sl_seqn_demo.csv.                   *)
(*                                                                         *)
(* The script is a straight line of dataframe statements.  Each statement  *)
(* group (the blocks the source separates by a comment) is one action; pc  *)
(* is the position of the interpreter.  A raised exception ends the run in *)
(* pc = "FileNotFoundError" or pc = "KeyError".                            *)
(*                                                                         *)
(* A cell is a record [kind, n]:                                           *)
(*    num  n    the number n                                               *)
(*    half n    the float n + 0.5 (a non-integral float)                   *)
(*    nan       a missing value (empty CSV field, np.nan)                  *)
(*    ph        the float 5.397605346934028e-79                            *)
(*    str  n    the text of the digits of n (SEQN is read with dtype str)  *)
(* A table is a sequence of rows [idx, cells]: idx is the pandas index     *)
(* label (here the 1-based position of the row in the file), cells maps    *)
(* the table's column names to cells.                                      *)
(***************************************************************************)
EXTENDS Integers, Sequences, FiniteSets, TLC

VARIABLES
    file,        \* data/raw/merged.csv: [exists, columns, rows]
    output_dir,  \* whether the directory data/clean exists
    pc,          \* the statement group about to run
    columns,     \* df.columns
    df,          \* the rows of df
    valid_mask,  \* valid_mask of line 76: idx -> (PHQ-9 item -> BOOLEAN)
    out          \* data/clean/sl_seqn_demo.csv: [written, columns, rows]

vars == <<file, output_dir, pc, columns, df, valid_mask, out>>

-----------------------------------------------------------------------------
(* Cells and the pandas element-wise primitives the script uses.           *)

Num(n) == [kind |-> "num", n |-> n]
Half(n) == [kind |-> "half", n |-> n]
Str(n) == [kind |-> "str", n |-> n]
NaN == [kind |-> "nan", n |-> 0]
placeholder == [kind |-> "ph", n |-> 0]

\* Series.isin(values) for a list of integers: 7.0 matches 7, 7.5 and NaN do not.
IsIn(v, values) == v.kind = "num" /\ v.n \in values

\* Series >= k, k an integer literal; NaN and the near-zero placeholder compare False.
GreaterEq(v, k) == v.kind \in {"num", "half"} /\ v.n >= k

\* Series == k, k an integer literal.
Equals(v, k) == v.kind = "num" /\ v.n = k

\* Series.notna()
NotNa(v) == v.kind # "nan"

\* Series.map(dict): a value that is no key of the dict becomes NaN.
MapCell(v, dict) ==
    IF v.kind = "num" /\ v.n \in DOMAIN dict THEN Num(dict[v.n]) ELSE NaN

\* Series.fillna(0)
FillNa(v) == IF v.kind = "nan" THEN Num(0) ELSE v

\* Series.astype(int): floats are truncated towards zero.
AsTypeInt(v) ==
    CASE v.kind = "num"  -> v
      [] v.kind = "half" -> Num(v.n)
      [] v.kind = "ph"   -> Num(0)
      [] v.kind = "str"  -> Num(v.n)
      [] OTHER           -> v

\* DataFrame.replace(placeholder, np.nan) on one cell.
ReplaceCell(v) == IF v = placeholder THEN NaN ELSE v

\* Twice the value of a cell as Series.sum(skipna=True) adds it.
RECURSIVE TwiceSum(_)
TwiceSum(cells) ==
    IF cells = <<>> THEN 0
    ELSE LET v == Head(cells)
             t == CASE v.kind = "num"  -> 2 * v.n
                    [] v.kind = "half" -> 2 * v.n + 1
                    [] OTHER           -> 0
         IN  t + TwiceSum(Tail(cells))

\* DataFrame.sum(axis=1) of one row's cells.
RowSum(cells) ==
    LET t == TwiceSum(cells)
    IN  IF t % 2 = 0 THEN Num(t \div 2) ELSE Half((t - 1) \div 2)

Range(s) == {s[i] : i \in DOMAIN s}

-----------------------------------------------------------------------------
(* The constants of the script.                                            *)

invalid_vals == {7, 9, 77, 99}

drop_cols == {
    "FNQ021", "FNQ041", "FNQ050", "FNQ060", "FNQ080", "FNQ100", "FNQ110", "FNQ120",
    "FNQ130", "FNQ140", "FNQ150", "FNQ160", "FNQ170", "FNQ180", "FNQ190", "FNQ200",
    "FNQ410", "FNQ430", "FNQ440", "FNQ450", "FNQ460", "FNQ480", "FNQ490", "FNQ530", "FNQ540",
    "FNDADI", "FNDAEDI", "FNDCDI",
    "HUQ010", "HUQ085",
    "INQ300", "IND310", "INDFMMPC", "INDFMPIR",
    "SLQ300", "SLQ310", "SLQ320", "SLQ330" }

column_mapping ==
    ("DMDHHSIZ" :> "Total number of people in the Household") @@
    ("DMDEDUC2" :> "Education level - Adults 20+") @@
    ("RIAGENDR" :> "Gender") @@
    ("RIDAGEYR" :> "Age in years at screening") @@
    ("FNQ470" :> "Difficulty with self-care") @@
    ("FNQ510" :> "How often feel worried/nervous/anxious") @@
    ("FNQ520" :> "Level of feeling worried/nervous/anxious") @@
    ("HUQ030" :> "Routine place to go for healthcare") @@
    ("HUQ042" :> "Type place most often go for healthcare") @@
    ("HUQ055" :> "Past 12 months had video conf w/Dr?") @@
    ("HUQ090" :> "Seen mental health professional/past yr") @@
    ("HIQ011" :> "Covered by health insurance") @@
    ("HIQ032A" :> "Covered by private insurance") @@
    ("HIQ032B" :> "Covered by Medicare") @@
    ("HIQ032C" :> "Covered by Medi-Gap") @@
    ("HIQ032D" :> "Covered by Medicaid") @@
    ("HIQ032E" :> "Covered by CHIP") @@
    ("HIQ032F" :> "Covered by military health care") @@
    ("HIQ032H" :> "Covered by state-sponsored health plan") @@
    ("HIQ032I" :> "Covered by other government insurance") @@
    ("HIQ210" :> "Time when no insurance in past year?") @@
    ("INDFMMPI" :> "Monthly poverty index") @@
    ("SLD012" :> "Sleep hours - weekdays or workdays") @@
    ("SLD013" :> "Sleep hours - weekends")

dpq100_mapping == ("DPQ100" :> "Difficulty these problems have caused")

phq9_items == << "DPQ010", "DPQ020", "DPQ030", "DPQ040", "DPQ050",
                 "DPQ060", "DPQ070", "DPQ080", "DPQ090" >>

phq9_valid == {0, 1, 2, 3}

binary_vars == {
    "Covered by health insurance",
    "Time when no insurance in past year?",
    "Routine place to go for healthcare",
    "Past 12 months had video conf w/Dr?",
    "Seen mental health professional/past yr" }

binary_map == (1 :> 1) @@ (2 :> 0)

insurance_cols == {
    "Covered by private insurance", "Covered by Medicare",
    "Covered by Medi-Gap", "Covered by Medicaid", "Covered by CHIP",
    "Covered by military health care", "Covered by state-sponsored health plan",
    "Covered by other government insurance" }

gender_map == (1 :> 0) @@ (2 :> 1)

unused_insurance == {"Covered by CHIP", "Covered by other government insurance"}

columns_to_convert == binary_vars \cup insurance_cols \cup {
    "Gender",
    "Education level - Adults 20+",
    "Difficulty these problems have caused",
    "Difficulty with self-care",
    "How often feel worried/nervous/anxious",
    "Level of feeling worried/nervous/anxious",
    "Type place most often go for healthcare",
    "Age in years at screening",
    "Total number of people in the Household" }

-----------------------------------------------------------------------------
(* Table operations.                                                       *)

\* pd.read_csv: the rows of the file, labelled by position.
ReadCsv(f) == [i \in 1..Len(f.rows) |-> [idx |-> i, cells |-> f.rows[i]]]

\* The dtype read_csv gives a column: SEQN is forced to str (object); a column
\* holding a missing or non-integral value is float64, any other is int64.
\* Row selection and the replacement of the placeholder (a float, by NaN, a
\* float) keep it.
Dtype(f, col) ==
    IF col = "SEQN" \/ f.rows = <<>> THEN "object"
    ELSE IF \E i \in 1..Len(f.rows) : f.rows[i][col].kind # "num" THEN "float64"
    ELSE "int64"

\* df.replace(placeholder, np.nan)
ReplaceRow(cs, r) == [r EXCEPT !.cells = [c \in cs |-> ReplaceCell(r.cells[c])]]

ReplacePlaceholderTable(cs, t) == [i \in 1..Len(t) |-> ReplaceRow(cs, t[i])]

\* Faulty variant: | written for &.
AdultCompletedEither(cells) ==
    GreaterEq(cells["RIDAGEYR"], 18) \/ Equals(cells["RIDSTATR"], 2)

\* (df["RIDAGEYR"] >= 18) & (df["RIDSTATR"] == 2) on one row
AdultCompleted(cells) ==
    GreaterEq(cells["RIDAGEYR"], 18) /\ Equals(cells["RIDSTATR"], 2)

AdultFilter(t) == SelectSeq(t, LAMBDA r : AdultCompleted(r.cells))

\* Faulty variant: the float64 columns are left out of the scan.
IsIntColumn(f, col) == Dtype(f, col) = "int64"

\* df[col].dtype in [np.int64, np.float64]
IsNumericColumn(f, col) == Dtype(f, col) \in {"int64", "float64"}

\* A row survives the loop of lines 22-24 when no pass of the loop removes it.
NoInvalidCode(f, cs, cells) ==
    \A col \in cs : IsNumericColumn(f, col) => ~IsIn(cells[col], invalid_vals)

InvalidFilter(f, cs, t) == SelectSeq(t, LAMBDA r : NoInvalidCode(f, cs, r.cells))

\* The columns after df.drop(columns=names present) / df.rename(columns=m)
Renamed(cs, m) == {IF c \in DOMAIN m THEN m[c] ELSE c : c \in cs}

SourceOf(cs, m, c2) ==
    IF \E c \in cs \cap DOMAIN m : m[c] = c2
    THEN CHOOSE c \in cs \cap DOMAIN m : m[c] = c2
    ELSE c2

RenameTable(cs, m, t) ==
    [i \in 1..Len(t) |->
        [t[i] EXCEPT !.cells = [c2 \in Renamed(cs, m) |-> t[i].cells[SourceOf(cs, m, c2)]]]]

DropTable(cs, names, t) ==
    [i \in 1..Len(t) |-> [t[i] EXCEPT !.cells = [c \in cs \ names |-> t[i].cells[c]]]]

\* df[phq9_items].isin([0, 1, 2, 3]) for one row
ValidMaskRow(cells) == [c \in Range(phq9_items) |-> IsIn(cells[c], phq9_valid)]

\* valid_mask.sum(axis=1) for one row
ValidCount(mask) == Cardinality({c \in Range(phq9_items) : mask[c]})

\* Faulty variants: the threshold off by one, either way.
EnoughValidFive(count) == count >= 5
EnoughValidSeven(count) == count > 6

\* valid_counts >= 6
EnoughValid(count) == count >= 6

PHQFilter(t) == SelectSeq(t, LAMBDA r : EnoughValid(ValidCount(ValidMaskRow(r.cells))))

\* Faulty variant: the invalid answers are left in place.
WhereCellKeep(v, keep) == v

\* df[phq9_items].where(valid_mask), aligned on the index label
WhereCell(v, keep) == IF keep THEN v ELSE NaN

NullifyRow(r, mask) ==
    [r EXCEPT !.cells = [c \in DOMAIN r.cells |->
        IF c \in Range(phq9_items) THEN WhereCell(r.cells[c], mask[r.idx][c])
        ELSE r.cells[c]]]

\* df["PHQ9_TOTAL"] = df[phq9_items].sum(axis=1)
TotalRow(cs, r) ==
    [r EXCEPT !.cells = [c \in cs \cup {"PHQ9_TOTAL"} |->
        IF c = "PHQ9_TOTAL"
        THEN RowSum([k \in 1..Len(phq9_items) |-> r.cells[phq9_items[k]]])
        ELSE r.cells[c]]]

\* Faulty variants: a recode that keeps an already recoded 0; the Gender codes
\* swapped; the cast to int forgotten.
BinaryCellKeepZero(v) == MapCell(v, (0 :> 0) @@ (1 :> 1) @@ (2 :> 0))
GenderCellSwapped(v) == MapCell(v, (1 :> 1) @@ (2 :> 0))
ConvertCellNoCast(v) == FillNa(v)

BinaryCell(v) == MapCell(v, binary_map)
InsuranceCell(v) == IF NotNa(v) THEN Num(1) ELSE Num(0)
GenderCell(v) == MapCell(v, gender_map)
ConvertCell(v) == AsTypeInt(FillNa(v))

\* for col in binary_vars: if col in df.columns: df[col] = df[col].map(...)
BinaryRecode(cs, t) ==
    [i \in 1..Len(t) |->
        [t[i] EXCEPT !.cells = [c \in cs |->
            IF c \in binary_vars THEN BinaryCell(t[i].cells[c]) ELSE t[i].cells[c]]]]

\* for col in insurance_cols: if col in df.columns: df[col] = df[col].notna().astype(int)
InsuranceRecode(cs, t) ==
    [i \in 1..Len(t) |->
        [t[i] EXCEPT !.cells = [c \in cs |->
            IF c \in insurance_cols THEN InsuranceCell(t[i].cells[c]) ELSE t[i].cells[c]]]]

\* if "Gender" in df.columns: df["Gender"] = df["Gender"].map(...)
GenderRecode(cs, t) ==
    [i \in 1..Len(t) |->
        [t[i] EXCEPT !.cells = [c \in cs |->
            IF c = "Gender" THEN GenderCell(t[i].cells[c]) ELSE t[i].cells[c]]]]

\* for col in columns_to_convert: if col in df.columns: df[col] = ...
ConvertTable(cs, t) ==
    [i \in 1..Len(t) |->
        [t[i] EXCEPT !.cells = [c \in cs |->
            IF c \in columns_to_convert THEN ConvertCell(t[i].cells[c]) ELSE t[i].cells[c]]]]

\* Lines 100-117 as one step.
RecodeStep(cs, t) == GenderRecode(cs, InsuranceRecode(cs, BinaryRecode(cs, t)))

\* Faulty variant: errors="ignore" forgotten, a missing label raises KeyError.
DropRaisesOnMissing(cs, names) == ~(names \subseteq cs)

\* df.drop(columns=names, errors="ignore") raises for no missing label.
DropRaises(cs, names) == FALSE

-----------------------------------------------------------------------------
(* The statement groups.                                                   *)

\* Lines 5-11: makedirs, read_csv.
Load ==
    /\ pc = "load"
    /\ output_dir' = TRUE
    /\ IF file.exists
       THEN /\ df' = ReadCsv(file)
            /\ columns' = file.columns
            /\ pc' = "replace"
       ELSE /\ pc' = "FileNotFoundError"
            /\ UNCHANGED <<df, columns>>
    /\ UNCHANGED <<file, valid_mask, out>>

\* Lines 13-15.
ReplacePlaceholder ==
    /\ pc = "replace"
    /\ df' = ReplacePlaceholderTable(columns, df)
    /\ pc' = "adults"
    /\ UNCHANGED <<file, output_dir, columns, valid_mask, out>>

\* Lines 17-18.
FilterAdults ==
    /\ pc = "adults"
    /\ IF {"RIDAGEYR", "RIDSTATR"} \subseteq columns
       THEN /\ df' = AdultFilter(df)
            /\ pc' = "invalid"
       ELSE /\ pc' = "KeyError"
            /\ UNCHANGED df
    /\ UNCHANGED <<file, output_dir, columns, valid_mask, out>>

\* Lines 20-24.
RemoveInvalidCodes ==
    /\ pc = "invalid"
    /\ df' = InvalidFilter(file, columns, df)
    /\ pc' = "drop"
    /\ UNCHANGED <<file, output_dir, columns, valid_mask, out>>

\* Lines 26-40.
DropUnused ==
    /\ pc = "drop"
    /\ df' = DropTable(columns, drop_cols, df)
    /\ columns' = columns \ drop_cols
    /\ pc' = "rename"
    /\ UNCHANGED <<file, output_dir, valid_mask, out>>

\* Lines 42-69.
RenameColumns ==
    /\ pc = "rename"
    /\ df' = RenameTable(columns, column_mapping, df)
    /\ columns' = Renamed(columns, column_mapping)
    /\ pc' = "phq9"
    /\ UNCHANGED <<file, output_dir, valid_mask, out>>

\* Lines 71-78.
FilterPHQ9 ==
    /\ pc = "phq9"
    /\ IF Range(phq9_items) \subseteq columns
       THEN /\ valid_mask' = [i \in {df[k].idx : k \in 1..Len(df)} |->
                                ValidMaskRow((CHOOSE r \in Range(df) : r.idx = i).cells)]
            /\ df' = PHQFilter(df)
            /\ pc' = "nullify"
       ELSE /\ pc' = "KeyError"
            /\ UNCHANGED <<df, valid_mask>>
    /\ UNCHANGED <<file, output_dir, columns, out>>

\* Lines 80-81.
NullifyInvalid ==
    /\ pc = "nullify"
    /\ df' = [i \in 1..Len(df) |-> NullifyRow(df[i], valid_mask)]
    /\ pc' = "total"
    /\ UNCHANGED <<file, output_dir, columns, valid_mask, out>>

\* Lines 83-84.
ComputeTotal ==
    /\ pc = "total"
    /\ df' = [i \in 1..Len(df) |-> TotalRow(columns, df[i])]
    /\ columns' = columns \cup {"PHQ9_TOTAL"}
    /\ pc' = "dropitems"
    /\ UNCHANGED <<file, output_dir, valid_mask, out>>

\* Lines 86-88.
DropItems ==
    /\ pc = "dropitems"
    /\ LET cs == columns \ Range(phq9_items)
       IN  /\ df' = RenameTable(cs, dpq100_mapping, DropTable(columns, Range(phq9_items), df))
           /\ columns' = Renamed(cs, dpq100_mapping)
    /\ pc' = "binary"
    /\ UNCHANGED <<file, output_dir, valid_mask, out>>

\* Lines 92-102.
RecodeBinary ==
    /\ pc = "binary"
    /\ df' = BinaryRecode(columns, df)
    /\ pc' = "insurance"
    /\ UNCHANGED <<file, output_dir, columns, valid_mask, out>>

\* Lines 104-113.
RecodeInsurance ==
    /\ pc = "insurance"
    /\ df' = InsuranceRecode(columns, df)
    /\ pc' = "gender"
    /\ UNCHANGED <<file, output_dir, columns, valid_mask, out>>

\* Lines 115-117.
RecodeGender ==
    /\ pc = "gender"
    /\ df' = GenderRecode(columns, df)
    /\ pc' = "dropins"
    /\ UNCHANGED <<file, output_dir, columns, valid_mask, out>>

\* Lines 119-120.
DropUnusedInsurance ==
    /\ pc = "dropins"
    /\ IF DropRaises(columns, unused_insurance)
       THEN /\ pc' = "KeyError"
            /\ UNCHANGED <<df, columns>>
       ELSE /\ df' = DropTable(columns, unused_insurance, df)
            /\ columns' = columns \ unused_insurance
            /\ pc' = "convert"
    /\ UNCHANGED <<file, output_dir, valid_mask, out>>

\* Lines 122-136.
ConvertToInt ==
    /\ pc = "convert"
    /\ df' = ConvertTable(columns, df)
    /\ pc' = "save"
    /\ UNCHANGED <<file, output_dir, columns, valid_mask, out>>

\* Lines 138-141.
Save ==
    /\ pc = "save"
    /\ out' = [written |-> TRUE, columns |-> columns, rows |-> df]
    /\ pc' = "done"
    /\ UNCHANGED <<file, output_dir, columns, df, valid_mask>>

Next ==
    \/ Load
    \/ ReplacePlaceholder
    \/ FilterAdults
    \/ RemoveInvalidCodes
    \/ DropUnused
    \/ RenameColumns
    \/ FilterPHQ9
    \/ NullifyInvalid
    \/ ComputeTotal
    \/ DropItems
    \/ RecodeBinary
    \/ RecodeInsurance
    \/ RecodeGender
    \/ DropUnusedInsurance
    \/ ConvertToInt
    \/ Save

-----------------------------------------------------------------------------
(* The files the model is run on.  A file is the base table (MaxRows or    *)
(* fewer copies of one respondent whose every answer is in range) with at  *)
(* most MaxDev deviations: a cell, or the tail of the PHQ-9 answers, of    *)
(* one row set to another value; a column left out of the file; the file   *)
(* itself missing.                                                         *)

MaxRows == 2
MaxDev == 2

UniverseSeq == <<
    "SEQN", "RIDSTATR", "RIDAGEYR", "RIAGENDR", "DMDHHSIZ", "DMDEDUC2",
    "DPQ010", "DPQ020", "DPQ030", "DPQ040", "DPQ050",
    "DPQ060", "DPQ070", "DPQ080", "DPQ090", "DPQ100",
    "FNQ021", "FNQ470", "FNQ510", "FNQ520",
    "HUQ030", "HUQ042", "HUQ055", "HUQ090",
    "HIQ011", "HIQ032A", "HIQ032B", "HIQ032C", "HIQ032D", "HIQ032E",
    "HIQ032F", "HIQ032H", "HIQ032I", "HIQ210",
    "INDFMMPI", "SLD012", "SLD013", "SLQ330" >>

Universe == Range(UniverseSeq)

BasePHQ == <<1, 2, 0, 3, 1, 2, 3, 0, 1>>

BaseCell(i, c) ==
    CASE c = "SEQN" -> Str(100 + i)
      [] c = "RIDSTATR" -> Num(2)
      [] c = "RIDAGEYR" -> Num(40)
      [] c = "RIAGENDR" -> Num(1)
      [] c \in Range(phq9_items) ->
            Num(BasePHQ[CHOOSE k \in 1..Len(phq9_items) : phq9_items[k] = c])
      [] c \in {"HIQ032B", "HIQ032C", "HIQ032D", "HIQ032E",
                "HIQ032F", "HIQ032H", "HIQ032I"} -> NaN
      [] c \in {"HIQ011", "HIQ032A", "HUQ030", "FNQ470", "FNQ520", "DPQ100", "FNQ021"} -> Num(1)
      [] c \in {"HIQ210", "HUQ055", "HUQ090", "HUQ042", "FNQ510", "SLQ330"} -> Num(2)
      [] c = "DMDHHSIZ" -> Num(3)
      [] c = "DMDEDUC2" -> Num(4)
      [] c = "INDFMMPI" -> Half(2)
      [] c = "SLD012" -> Half(6)
      [] c = "SLD013" -> Num(8)

Absent == [kind |-> "absent", n |-> 0]

Dev(row, cols, val) == [row |-> row, cols |-> cols, val |-> val]

FileMissing == Dev(0, {}, Absent)
ColumnMissing(c) == Dev(0, {c}, Absent)

\* The last k PHQ-9 items.
PHQTail(k) == {phq9_items[j] : j \in (Len(phq9_items) - k + 1)..Len(phq9_items)}

Consistent(S) == \A d, e \in S : (d.row = e.row /\ d.cols = e.cols) => d = e

CellOf(i, c, S) ==
    LET ds == {d \in S : d.row = i /\ c \in d.cols}
    IN  IF ds = {} THEN BaseCell(i, c)
        ELSE (CHOOSE d \in ds : \A e \in ds : Cardinality(d.cols) <= Cardinality(e.cols)).val

MkFile(n, S) ==
    IF FileMissing \in S
    THEN [exists |-> FALSE, columns |-> {}, rows |-> <<>>]
    ELSE LET cs == Universe \ UNION {d.cols : d \in {e \in S : e.row = 0}}
         IN  [exists |-> TRUE, columns |-> cs,
              rows |-> [i \in 1..n |-> [c \in cs |-> CellOf(i, c, S)]]]

\* The subsets of 1..m of at most k elements.
RECURSIVE IndexSets(_, _)
IndexSets(m, k) ==
    IF m = 0 \/ k = 0 THEN {{}}
    ELSE IndexSets(m - 1, k) \cup {I \cup {m} : I \in IndexSets(m - 1, k - 1)}

\* The j-th deviation open to a file of n rows: a table deviation, or a row
\* deviation applied to one of the rows.
OptionAt(rowDevs, tableDevs, j) ==
    IF j <= Len(tableDevs) THEN tableDevs[j]
    ELSE LET q == j - Len(tableDevs) - 1
             d == rowDevs[(q % Len(rowDevs)) + 1]
         IN  Dev((q \div Len(rowDevs)) + 1, d.cols, d.val)

DevSetOf(rowDevs, tableDevs, I) == {OptionAt(rowDevs, tableDevs, j) : j \in I}

CommonTableDevs == <<FileMissing, ColumnMissing("RIDSTATR"), ColumnMissing("DPQ090")>>

FilterRowDevs == <<
    Dev(0, {"RIDAGEYR"}, Num(16)), Dev(0, {"RIDAGEYR"}, Half(17)),
    Dev(0, {"RIDAGEYR"}, Num(18)), Dev(0, {"RIDAGEYR"}, NaN),
    Dev(0, {"RIDAGEYR"}, Num(77)),
    Dev(0, {"RIDSTATR"}, Num(1)), Dev(0, {"RIDSTATR"}, NaN),
    Dev(0, {"SLD012"}, placeholder), Dev(0, {"SLD012"}, Num(7)),
    Dev(0, {"DMDHHSIZ"}, Num(9)), Dev(0, {"FNQ021"}, Num(99)),
    Dev(0, {"SEQN"}, Str(77)),
    Dev(0, PHQTail(3), Num(9)), Dev(0, PHQTail(3), NaN), Dev(0, PHQTail(4), NaN) >>

InitWith(rowDevs, tableDevs) ==
    /\ \E n \in 0..MaxRows :
         \E I \in IndexSets(Len(tableDevs) + n * Len(rowDevs), MaxDev) :
            LET S == DevSetOf(rowDevs, tableDevs, I)
            IN  /\ Consistent(S)
                /\ file = MkFile(n, S)
    /\ output_dir = FALSE
    /\ pc = "load"
    /\ columns = {}
    /\ df = <<>>
    /\ valid_mask = <<>>
    /\ out = [written |-> FALSE, columns |-> {}, rows |-> <<>>]

Init == InitWith(FilterRowDevs, CommonTableDevs)

Spec == Init /\ [][Next]_vars

\* Files whose PHQ-9 answers vary.
PHQRowDevs == <<
    Dev(0, PHQTail(3), Num(9)), Dev(0, PHQTail(3), NaN), Dev(0, PHQTail(3), Num(4)),
    Dev(0, PHQTail(3), placeholder), Dev(0, PHQTail(3), Half(1)),
    Dev(0, PHQTail(4), NaN), Dev(0, PHQTail(4), Num(4)), Dev(0, PHQTail(4), Half(1)),
    Dev(0, PHQTail(1), NaN), Dev(0, PHQTail(1), Num(5)),
    Dev(0, PHQTail(9), NaN),
    Dev(0, {"DPQ010"}, Num(3)), Dev(0, {"DPQ010"}, Num(8)),
    Dev(0, {"RIDAGEYR"}, Num(16)) >>

InitPHQ == InitWith(PHQRowDevs, CommonTableDevs)
SpecPHQ == InitPHQ /\ [][Next]_vars

\* Files whose recoded and converted columns vary.
RecodeRowDevs == <<
    Dev(0, {"RIAGENDR"}, Num(2)), Dev(0, {"RIAGENDR"}, NaN),
    Dev(0, {"RIAGENDR"}, Num(3)), Dev(0, {"RIAGENDR"}, Num(9)),
    Dev(0, {"HIQ011"}, Num(2)), Dev(0, {"HIQ011"}, NaN), Dev(0, {"HIQ011"}, Num(3)),
    Dev(0, {"HUQ090"}, Num(1)),
    Dev(0, {"HIQ032A"}, NaN), Dev(0, {"HIQ032A"}, placeholder),
    Dev(0, {"HIQ032B"}, Num(2)),
    Dev(0, {"DMDEDUC2"}, NaN), Dev(0, {"DMDEDUC2"}, Half(4)) >>

RecodeTableDevs == CommonTableDevs \o <<
    ColumnMissing("RIAGENDR"), ColumnMissing("HIQ011"),
    ColumnMissing("HIQ032E"), ColumnMissing("DMDEDUC2") >>

InitRecode == InitWith(RecodeRowDevs, RecodeTableDevs)
SpecRecode == InitRecode /\ [][Next]_vars

\* Files with columns left out, and the file missing.
SchemaRowDevs == << Dev(0, {"RIDAGEYR"}, Num(16)), Dev(0, PHQTail(4), NaN) >>

SchemaTableDevs ==
    <<FileMissing>> \o [k \in 1..Len(UniverseSeq) |-> ColumnMissing(UniverseSeq[k])]

InitSchema == InitWith(SchemaRowDevs, SchemaTableDevs)
SpecSchema == InitSchema /\ [][Next]_vars

-----------------------------------------------------------------------------
(* Vocabulary of the properties: the file's rows as read, told apart by    *)
(* their index label.                                                      *)

Raw(i) == file.rows[i]
RawIds == 1..Len(file.rows)
IdxSeq(t) == [k \in 1..Len(t) |-> t[k].idx]
OutIds == Range(IdxSeq(out.rows))
OutRow(i) == (CHOOSE r \in Range(out.rows) : r.idx = i).cells
Written == pc = "done" /\ out.written
Aborted == pc \in {"FileNotFoundError", "KeyError"}

IsAdult(raw) == raw["RIDAGEYR"].kind \in {"num", "half"} /\ raw["RIDAGEYR"].n >= 18
IsCompleted(raw) == raw["RIDSTATR"] = Num(2)
HasInvalidCode(raw) ==
    \E c \in DOMAIN raw \ {"SEQN"} : raw[c] \in {Num(7), Num(9), Num(77), Num(99)}
HasSentinel(raw) == \E c \in DOMAIN raw : raw[c] = placeholder
RawValidCount(raw) ==
    Cardinality({k \in 1..Len(phq9_items) :
                    raw[phq9_items[k]] \in {Num(0), Num(1), Num(2), Num(3)}})

-----------------------------------------------------------------------------
(* C1: every row written came from a file row whose RIDAGEYR is >= 18 and  *)
(* whose RIDSTATR is 2; a file row of age 16 is never written.             *)
C1_AdultsCompletedOnly ==
    out.written =>
        /\ \A i \in OutIds : i \in RawIds /\ IsAdult(Raw(i)) /\ IsCompleted(Raw(i))
        /\ \A i \in RawIds : Raw(i)["RIDAGEYR"] = Num(16) => i \notin OutIds

\* A file with a row of age 16 next to a row that is written.
C1_Witness ==
    /\ Written
    /\ OutIds # {}
    /\ \E i \in RawIds : Raw(i)["RIDAGEYR"] = Num(16) /\ i \notin OutIds

(* C7: the placeholder becomes NaN and removes no row by itself, while a   *)
(* 7, 9, 77 or 99 in any int64/float64 column removes the row: after the   *)
(* replacement every row is still there with its placeholders nulled; after*)
(* the loop the rows left are the adult, completed rows without such a     *)
(* code, whether or not they held a placeholder; no written row held one.  *)
C7_SentinelNulledCodesEliminate ==
    /\ pc = "adults" =>
          /\ IdxSeq(df) = [i \in RawIds |-> i]
          /\ \A i \in RawIds : \A c \in file.columns :
                df[i].cells[c] = IF Raw(i)[c] = placeholder THEN NaN ELSE Raw(i)[c]
    /\ pc = "drop" =>
          \A i \in RawIds :
             i \in Range(IdxSeq(df)) <=>
                IsAdult(Raw(i)) /\ IsCompleted(Raw(i)) /\ ~HasInvalidCode(Raw(i))
    /\ out.written => \A i \in OutIds : ~HasInvalidCode(Raw(i))

\* A row holding a placeholder is written while a row holding a code is not.
C7_Witness ==
    /\ Written
    /\ \E i \in OutIds : HasSentinel(Raw(i))
    /\ \E j \in RawIds : HasInvalidCode(Raw(j)) /\ j \notin OutIds

(* C9: the three row filters commute: applied to the loaded table in any   *)
(* of their six orders they leave the same rows in file order, which are   *)
(* the rows written and are the file rows meeting all three conditions.    *)
C9_FiltersCommute ==
    out.written =>
        LET t0 == ReplacePlaceholderTable(file.columns, ReadCsv(file))
            A(t) == AdultFilter(t)
            I(t) == InvalidFilter(file, file.columns, t)
            P(t) == PHQFilter(t)
            want == SelectSeq([i \in RawIds |-> i],
                        LAMBDA i : /\ IsAdult(Raw(i)) /\ IsCompleted(Raw(i))
                                   /\ ~HasInvalidCode(Raw(i))
                                   /\ RawValidCount(Raw(i)) >= 6)
        IN  /\ IdxSeq(out.rows) = want
            /\ IdxSeq(P(I(A(t0)))) = want
            /\ IdxSeq(I(P(A(t0)))) = want
            /\ IdxSeq(P(A(I(t0)))) = want
            /\ IdxSeq(A(P(I(t0)))) = want
            /\ IdxSeq(I(A(P(t0)))) = want
            /\ IdxSeq(A(I(P(t0)))) = want

\* The first row of the file is filtered out and a later one is written.
C9_Witness ==
    /\ Written
    /\ \E i \in OutIds : \E j \in RawIds : j < i /\ j \notin OutIds

-----------------------------------------------------------------------------
RECURSIVE ValidSum(_, _)
ValidSum(raw, k) ==
    IF k = 0 THEN 0
    ELSE LET v == raw[phq9_items[k]]
         IN  (IF v \in {Num(0), Num(1), Num(2), Num(3)} THEN v.n ELSE 0)
                + ValidSum(raw, k - 1)

(* C3: PHQ9_TOTAL of a written row is the sum of its answers that are in   *)
(* {0,1,2,3}; every other answer counts as 0.                              *)
C3_TotalOfValidAnswers ==
    out.written =>
        \A i \in OutIds :
            OutRow(i)["PHQ9_TOTAL"] = Num(ValidSum(Raw(i), Len(phq9_items)))

\* A written row that held an invalid answer which is a number, not a null.
C3_Witness ==
    /\ Written
    /\ \E i \in OutIds :
          /\ \E k \in 1..Len(phq9_items) : Raw(i)[phq9_items[k]].kind \in {"num", "half"}
                                          /\ Raw(i)[phq9_items[k]].n >= 4
          /\ OutRow(i)["PHQ9_TOTAL"] = Num(ValidSum(Raw(i), Len(phq9_items)))

(* C4: a file row of age 40, status 2 and PHQ-9 answers 1,2,0,3,1,2,9,9,9, *)
(* its other cells holding none of 7, 9, 77, 99, is written with           *)
(* PHQ9_TOTAL = 9.                                                         *)
C4_SixValidThreeNinesRetained ==
    out.written =>
        \A i \in RawIds :
            ( /\ Raw(i)["RIDAGEYR"] = Num(40)
              /\ Raw(i)["RIDSTATR"] = Num(2)
              /\ [k \in 1..Len(phq9_items) |-> Raw(i)[phq9_items[k]]]
                    = <<Num(1), Num(2), Num(0), Num(3), Num(1), Num(2), Num(9), Num(9), Num(9)>>
              /\ \A c \in DOMAIN Raw(i) \ (Range(phq9_items) \cup {"SEQN"}) :
                    Raw(i)[c] \notin {Num(7), Num(9), Num(77), Num(99), placeholder} )
            => i \in OutIds /\ OutRow(i)["PHQ9_TOTAL"] = Num(9)

-----------------------------------------------------------------------------
\* The file column a column of the output comes from.
Label(c) == IF c \in DOMAIN column_mapping THEN column_mapping[c]
            ELSE IF c = "DPQ100" THEN "Difficulty these problems have caused"
            ELSE c
Integral(v) == v.kind = "num"

(* C5 as stated: every column of columns_to_convert is in the output, and  *)
(* every cell of it is non-null and integral.                              *)
C5_AllConvertColumnsPresent ==
    out.written =>
        \A c \in columns_to_convert :
            /\ c \in out.columns
            /\ \A k \in 1..Len(out.rows) : Integral(out.rows[k].cells[c])

(* C5 amended: a column of columns_to_convert is in the output exactly     *)
(* when it is not one of the two dropped insurance flags and the file had  *)
(* its source column; every cell of such a column in the output is         *)
(* non-null and integral.                                                  *)
C5_PresentConvertColumnsIntegral ==
    out.written =>
        \A c \in columns_to_convert :
            /\ c \in out.columns <=>
                  (c \notin unused_insurance /\ \E r \in file.columns : Label(r) = c)
            /\ c \in out.columns =>
                  \A k \in 1..Len(out.rows) : Integral(out.rows[k].cells[c])

\* A written row whose converted cell was null or non-integral in the file.
C5_Witness ==
    /\ Written
    /\ \E i \in OutIds :
          /\ "DMDEDUC2" \in file.columns
          /\ Raw(i)["DMDEDUC2"] \in {NaN, Half(4)}
          /\ Integral(OutRow(i)["Education level - Adults 20+"])

(* C6 as stated: the recode of lines 100-117 applied to the recoded table  *)
(* gives the recoded table.                                                *)
C6_RecodeIdempotent ==
    pc = "dropins" => RecodeStep(columns, df) = df

(* C6 amended: the recode applied to the recoded table leaves a binary     *)
(* cell alone only when it holds 1 or null (a recoded 0 becomes null),     *)
(* sets every insurance flag to 1 (a flag 0 becomes 1), turns Gender 1     *)
(* into 0 and any other Gender into null, and leaves the other columns     *)
(* alone.                                                                  *)
C6_SecondRecode ==
    pc = "dropins" =>
        LET again == RecodeStep(columns, df)
        IN  /\ IdxSeq(again) = IdxSeq(df)
            /\ \A k \in 1..Len(df) : \A c \in columns :
                  LET v == df[k].cells[c]
                      w == again[k].cells[c]
                  IN  CASE c \in binary_vars    -> w = (IF v = Num(1) THEN Num(1) ELSE NaN)
                        [] c \in insurance_cols -> w = Num(1)
                        [] c = "Gender"         -> w = (IF v = Num(1) THEN Num(0) ELSE NaN)
                        [] OTHER                -> w = v

\* A recoded table holding a binary 0, an insurance flag 0 and a Gender 1.
C6_Witness ==
    /\ pc = "dropins"
    /\ \E k \in 1..Len(df) :
          /\ \E c \in binary_vars \cap columns : df[k].cells[c] = Num(0)
          /\ \E c \in insurance_cols \cap columns : df[k].cells[c] = Num(0)
    /\ \E k \in 1..Len(df) : "Gender" \in columns /\ df[k].cells["Gender"] = Num(1)

\* The file columns recoded as Gender and as binary yes/no.
GenderSource == "RIAGENDR"
BinarySources == {c \in DOMAIN column_mapping : column_mapping[c] \in binary_vars}

\* Gender and the binary columns of a written row are 0 or 1, 1 exactly for
\* raw 2 (Gender) and raw 1 (binary).
RecodedZeroOne ==
    \A i \in OutIds : \A c \in ({GenderSource} \cup BinarySources) \cap file.columns :
        /\ OutRow(i)[Label(c)] \in {Num(0), Num(1)}
        /\ OutRow(i)[Label(c)] = Num(1) <=>
              Raw(i)[c] = (IF c = GenderSource THEN Num(2) ELSE Num(1))

\* Two file rows differ only in Gender / binary cells neither of which holds
\* the value recoded as 1 (SEQN, the identifier, apart).
DifferOnlyInZeroCells(i, j) ==
    \A c \in file.columns \ {"SEQN"} :
        Raw(i)[c] # Raw(j)[c] =>
            /\ c \in {GenderSource} \cup BinarySources
            /\ (IF c = GenderSource THEN Num(2) ELSE Num(1)) \notin {Raw(i)[c], Raw(j)[c]}

SameOutput(i, j) ==
    /\ i \in OutIds <=> j \in OutIds
    /\ i \in OutIds =>
          \A c \in out.columns \ {"SEQN"} : OutRow(i)[c] = OutRow(j)[c]

(* C10 as stated: Gender and the binary columns are 0 or 1 as above, and   *)
(* two file rows that differ only in cells recoded as 0, whatever those    *)
(* cells hold, give identical output rows.                                 *)
C10_ZeroCellsIndistinguishable ==
    out.written =>
        /\ RecodedZeroOne
        /\ \A i, j \in RawIds : DifferOnlyInZeroCells(i, j) => SameOutput(i, j)

(* C10 amended: the same, for cells that hold none of 7, 9, 77, 99: a row  *)
(* with such a code in Gender or a binary column is not written at all.    *)
C10_ZeroCellsIndistinguishableButCodes ==
    out.written =>
        /\ RecodedZeroOne
        /\ \A i, j \in RawIds :
              (DifferOnlyInZeroCells(i, j)
                 /\ \A c \in {GenderSource} \cup BinarySources :
                       c \in file.columns =>
                          ~IsIn(Raw(i)[c], invalid_vals) /\ ~IsIn(Raw(j)[c], invalid_vals))
              => SameOutput(i, j)
        /\ \A i \in RawIds :
              (\E c \in ({GenderSource} \cup BinarySources) \cap file.columns :
                    IsIn(Raw(i)[c], invalid_vals)) => i \notin OutIds

\* Two written rows, Gender 1 in the file for one, null or 3 for the other,
\* both 0 in the output.
C10_Witness ==
    /\ Written
    /\ \E i, j \in OutIds :
          /\ GenderSource \in file.columns
          /\ Raw(i)[GenderSource] = Num(1)
          /\ Raw(j)[GenderSource] \in {NaN, Num(3)}
          /\ DifferOnlyInZeroCells(i, j)
          /\ OutRow(i)["Gender"] = Num(0) /\ OutRow(j)["Gender"] = Num(0)

-----------------------------------------------------------------------------
RequiredColumns == {"RIDAGEYR", "RIDSTATR"} \cup Range(phq9_items)
BadInput == ~file.exists \/ ~(RequiredColumns \subseteq file.columns)

(* C8: with the file missing or a column of the filters absent the run     *)
(* ends in an error and the output is not written; with the file there     *)
(* and those columns present no absent column raises, and the run goes on  *)
(* to write the output.                                                    *)
C8_ErrorsAbortOptionalTolerated ==
    /\ Aborted => ~out.written /\ BadInput
    /\ BadInput => ~out.written /\ pc # "done"
    /\ ~file.exists => pc \in {"load", "FileNotFoundError"}
    /\ (file.exists /\ ~({"RIDAGEYR", "RIDSTATR"} \subseteq file.columns)) =>
          pc \in {"load", "replace", "adults", "KeyError"}
    /\ (file.exists /\ ~(Range(phq9_items) \subseteq file.columns)) =>
          pc \in {"load", "replace", "adults", "invalid", "drop", "rename", "phq9", "KeyError"}
    /\ pc = "done" => out.written /\ output_dir
    /\ (pc # "done" /\ ~Aborted) => ENABLED Next

\* A run that meets an absent PHQ-9 item and ends in KeyError, nothing written.
C8_Witness ==
    /\ pc = "KeyError"
    /\ file.exists
    /\ {"RIDAGEYR", "RIDSTATR"} \subseteq file.columns
    /\ ~(Range(phq9_items) \subseteq file.columns)
    /\ ~out.written

====
